---- MODULE Spec2Model ----
(***************************************************************************)
(* Model of the PDF resume parser (src/app_v2.py) and of the two viewer    *)
(* scripts (src/app.py, src/app_v1.py).                                    *)
(*                                                                         *)
(* Texts are sequences of one-character strings, so that the regular       *)
(* expressions, the CSV writer and the CSV reader are computed character   *)
(* by character.                                                           *)
(***************************************************************************)
EXTENDS Integers, Sequences, FiniteSets, TLC

VARIABLES
    pc,           \* per session: where the script run stands
    uploaded,     \* per session: the file in the uploader widget
    all_text,     \* per session: the assembled text (app_v2.py:68)
    parsed,       \* per session: resume_dict as a row, <<>> before it is built
    shown,        \* per session: the seven fields as displayed, <<>> before
    df_combined,  \* per session: the merged table, NoTable before it is built
    ui,           \* per session: what the page shows, in order
    err,          \* per session: the stage that ended the run, "" when none did
    master_csv,   \* the file all_parsed_resumes.csv: whether it exists, its text
    start_csv,    \* history, per session: master_csv when the run started
    log,          \* history: the rows of the uploads whose write completed
    n_uploads,    \* history: script runs started
    faulted,      \* history: a write to the file has failed
    overlap,      \* history: a run merged while another was between merge and write
    h_text,       \* harness: the assembled text handed to a field extractor
    h_out,        \* harness: the extractor's result
    h_pc          \* harness: "in" before the extractor ran, "out" after

\* ---------------------------------------------------------------- bounds
MaxSegs == 2    \* number of (optional '+', digit run, separator) segments of a text
MaxRun == 13    \* longest digit run of a text
MaxUploads == 2 \* script runs per behaviour
MaxTear == 5    \* a failed write may stop after any of the first MaxTear characters

\* ------------------------------------------------------------ characters
Digit == {"0", "1", "2", "3", "4", "5", "6", "7", "8", "9"}

\* Python's \s for the characters that occur
Space == {" ", "\n", "\t", "\r"}

\* a function over 1..n as the tuple of its values (computed once)
Tuple(f) == f \o <<>>

RECURSIVE Join(_, _)
\* sep.join(parts)
Join(parts, sep) ==
    IF Len(parts) = 0 THEN <<>>
    ELSE IF Len(parts) = 1 THEN parts[1]
    ELSE parts[1] \o sep \o Join(Tail(parts), sep)

CommaSpace == <<",", " ">>

\* ------------------------------------------------- phones (app_v2.py:82)
RECURSIVE DigitRun(_, _, _)
\* number of consecutive digits of s from position i, at most cap (greedy \d{..cap})
DigitRun(s, i, cap) ==
    IF cap = 0 \/ i > Len(s) \/ s[i] \notin Digit THEN 0
    ELSE 1 + DigitRun(s, i + 1, cap - 1)

PhoneMinDigits == 10
PhoneMaxDigits == 12

\* mutant: the lower bound of the repetition off by one (\d{9,12})
PhoneMatchAt_Nine(s, i) ==
    LET plus == IF s[i] = "+" THEN 1 ELSE 0
        n    == DigitRun(s, i + plus, PhoneMaxDigits)
    IN  IF n >= PhoneMinDigits - 1 THEN plus + n ELSE 0

\* length of the match of \+?\d{10,12} anchored at i, 0 when there is none
PhoneMatchAt(s, i) ==
    LET plus == IF s[i] = "+" THEN 1 ELSE 0
        n    == DigitRun(s, i + plus, PhoneMaxDigits)
    IN  IF n >= PhoneMinDigits THEN plus + n ELSE 0

RECURSIVE PhoneScan(_, _)
PhoneScan(s, i) ==
    IF i > Len(s) THEN <<>>
    ELSE LET m == PhoneMatchAt(s, i)
         IN  IF m > 0 THEN <<SubSeq(s, i, i + m - 1)>> \o PhoneScan(s, i + m)
             ELSE PhoneScan(s, i + 1)

\* re.findall(r'\+?\d{10,12}', all_text)
phones(text) == PhoneScan(text, 1)

\* ", ".join(phones) if phones else ""
PhonesField(text) == Join(phones(text), CommaSpace)

\* ------------------------------------------------- emails (app_v2.py:81)
RECURSIVE NonSpaceRun(_, _)
\* number of consecutive non-whitespace characters of s from position i (greedy \S+)
NonSpaceRun(s, i) ==
    IF i > Len(s) \/ s[i] \in Space THEN 0 ELSE 1 + NonSpaceRun(s, i + 1)

\* length of the match of \S+@\S+ anchored at i, 0 when there is none: the first
\* \S+ backtracks to an '@' that leaves one character before and one after it, the
\* second \S+ then runs to the end of the token
EmailMatchAt(s, i) ==
    LET r == NonSpaceRun(s, i)
    IN  IF \E k \in 1..(r - 2) : s[i + k] = "@" THEN r ELSE 0

RECURSIVE EmailScan(_, _)
EmailScan(s, i) ==
    IF i > Len(s) THEN <<>>
    ELSE LET m == EmailMatchAt(s, i)
         IN  IF m > 0 THEN <<SubSeq(s, i, i + m - 1)>> \o EmailScan(s, i + m)
             ELSE EmailScan(s, i + 1)

\* re.findall(r'\S+@\S+', all_text)
emails(text) == EmailScan(text, 1)

\* ------------------------------------- keyword filters (app_v2.py:83-92)
UpperCase ==
    <<"A","B","C","D","E","F","G","H","I","J","K","L","M",
      "N","O","P","Q","R","S","T","U","V","W","X","Y","Z">>
LowerCase ==
    <<"a","b","c","d","e","f","g","h","i","j","k","l","m",
      "n","o","p","q","r","s","t","u","v","w","x","y","z">>

LowerChar(c) ==
    IF \E i \in 1..26 : UpperCase[i] = c
    THEN LowerCase[CHOOSE i \in 1..26 : UpperCase[i] = c]
    ELSE c

\* str.lower()
Lower(s) == Tuple([i \in 1..Len(s) |-> LowerChar(s[i])])

\* sub in s
Contains(sub, s) ==
    \E i \in 1..(Len(s) - Len(sub) + 1) : SubSeq(s, i, i + Len(sub) - 1) = sub

RECURSIVE SplitAt(_, _, _)
\* s.split(c): the pieces between the occurrences of c, empty pieces kept
SplitAt(s, c, piece) ==
    IF Len(s) = 0 THEN <<piece>>
    ELSE IF Head(s) = c THEN <<piece>> \o SplitAt(Tail(s), c, <<>>)
    ELSE SplitAt(Tail(s), c, Append(piece, Head(s)))

SplitLines(s) == SplitAt(s, "\n", <<>>)

RECURSIVE LStrip(_)
LStrip(s) == IF Len(s) > 0 /\ Head(s) \in Space THEN LStrip(Tail(s)) ELSE s

RECURSIVE RStrip(_)
RStrip(s) ==
    IF Len(s) > 0 /\ s[Len(s)] \in Space THEN RStrip(SubSeq(s, 1, Len(s) - 1)) ELSE s

\* str.strip()
Strip(s) == RStrip(LStrip(s))

RECURSIVE Filter(_, _)
\* [x for x in seq if ...], keep[i] telling whether seq[i] passes the test
Filter(seq, keep) ==
    IF Len(seq) = 0 THEN <<>>
    ELSE (IF Head(keep) THEN <<Head(seq)>> ELSE <<>>) \o Filter(Tail(seq), Tail(keep))

skills_list ==
    <<<<"P","y","t","h","o","n">>,
      <<"J","a","v","a">>,
      <<"P","H","P">>,
      <<"S","Q","L">>,
      <<"P","a","n","d","a","s">>,
      <<"N","u","m","P","y">>,
      <<"M","a","t","p","l","o","t","l","i","b">>,
      <<"S","e","a","b","o","r","n">>,
      <<"T","a","b","l","e","a","u">>,
      <<"M","a","c","h","i","n","e"," ","L","e","a","r","n","i","n","g">>,
      <<"D","e","e","p"," ","L","e","a","r","n","i","n","g">>,
      <<"H","T","M","L">>,
      <<"C","S","S">>,
      <<"J","a","v","a","S","c","r","i","p","t">>,
      <<"S","t","a","t","i","s","t","i","c","s">>,
      <<"L","o","g","i","s","t","i","c"," ","R","e","g","r","e","s","s","i","o","n">>,
      <<"R","a","n","d","o","m"," ","F","o","r","e","s","t">>,
      <<"K","N","N">>,
      <<"S","V","R">>>>

education_keywords ==
    <<<<"B","a","c","h","e","l","o","r","s">>,
      <<"M","a","s","t","e","r","s">>,
      <<"+","2">>,
      <<"S","c","h","o","o","l">>,
      <<"C","o","l","l","e","g","e">>,
      <<"U","n","i","v","e","r","s","i","t","y">>>>

projects_keywords ==
    <<<<"P","r","o","j","e","c","t">>,
      <<"P","R","O","J","E","C","T">>,
      <<"p","r","o","j","e","c","t","s">>,
      <<"A","C","A","D","E","M","I","C"," ","P","R","O","J","E","C","T","S">>,
      <<"M","i","n","i"," ","P","r","o","j","e","c","t","s">>>>

\* [skill for skill in skills_list if skill.lower() in all_text.lower()]
found_skills(text) ==
    LET low == Lower(text)
    IN  Filter(skills_list,
               Tuple([j \in 1..Len(skills_list) |-> Contains(Lower(skills_list[j]), low)]))

RECURSIVE StripAll(_)
StripAll(seq) ==
    IF Len(seq) = 0 THEN <<>> ELSE <<Strip(Head(seq))>> \o StripAll(Tail(seq))

\* [line.strip() for line in all_text.split('\n') if any(k in line for k in keywords)]
KeywordLines(text, keywords) ==
    LET lines == SplitLines(text)
        Hit(line) == \E j \in 1..Len(keywords) : Contains(keywords[j], line)
    IN  StripAll(Filter(lines, Tuple([i \in 1..Len(lines) |-> Hit(lines[i])])))

education_lines(text) == KeywordLines(text, education_keywords)

projects_lines(text) == KeywordLines(text, projects_keywords)

Passionate == <<"p","a","s","s","i","o","n","a","t","e">>
Skilled == <<"s","k","i","l","l","e","d">>

\* [sent.text.strip() for sent in doc.sents
\*      if "passionate" in sent.text.lower() or "skilled" in sent.text.lower()]
profile_sentences(sents) ==
    LET Hit(sent) == Contains(Passionate, Lower(sent)) \/ Contains(Skilled, Lower(sent))
    IN  StripAll(Filter(sents, Tuple([i \in 1..Len(sents) |-> Hit(sents[i])])))

NA == <<"N","/","A">>
Newline == <<"\n">>

\* names[0] if names else "N/A"
name(persons) == IF Len(persons) > 0 THEN persons[1] ELSE NA

\* ", ".join(xs) if xs else "" (and "\n".join): the empty list joins to ""
\* resume_dict (app_v2.py:105-113), as the row of values in column order
resume_dict(text, doc) ==
    << name(doc.persons),
       Join(emails(text), CommaSpace),
       PhonesField(text),
       Join(found_skills(text), CommaSpace),
       Join(education_lines(text), Newline),
       Join(projects_lines(text), Newline),
       Join(profile_sentences(doc.sents), Newline) >>

\* x if x else "N/A" on the joined text (app_v2.py:96-102)
OrNA(s) == IF Len(s) > 0 THEN s ELSE NA

\* what st.write shows for the seven fields, given the row of resume_dict: the name
\* as it is, each joined text or "N/A"
displayed(r) == <<r[1]>> \o [i \in 1..6 |-> OrNA(r[i + 1])]

\* -------------------------------------------------- tables (DataFrame)
\* A cell is a string, a missing value (NaN), an integer or a float. Numbers are kept
\* as their decimal digits without sign or leading zeros (a phone number exceeds
\* 32 bits); the only floats that arise are whole numbers (an integer column with a
\* missing value), kept as the digits of their integer part.
StrCell(s) == [t |-> "str", v |-> s]
NaN == [t |-> "nan", v |-> <<>>]
IntCell(d) == [t |-> "int", v |-> d]
FloatCell(d) == [t |-> "float", v |-> d]

Columns ==
    <<<<"N","a","m","e">>,
      <<"E","m","a","i","l","s">>,
      <<"P","h","o","n","e","s">>,
      <<"S","k","i","l","l","s">>,
      <<"E","d","u","c","a","t","i","o","n">>,
      <<"P","r","o","j","e","c","t","s">>,
      <<"P","r","o","f","i","l","e">>>>

\* pd.DataFrame([resume_dict]) (app_v2.py:115): one row, the dict's keys as columns
df_new(row) ==
    [columns |-> Columns, data |-> <<Tuple([i \in 1..Len(row) |-> StrCell(row[i])])>>]

IndexOf(seq, x) == IF \E i \in 1..Len(seq) : seq[i] = x
                   THEN CHOOSE i \in 1..Len(seq) : seq[i] = x
                   ELSE 0

\* pd.concat([a, b], ignore_index=True) (app_v2.py:120): the columns of a, then
\* those of b that a lacks; a cell of a column a frame lacks is NaN
concat(a, b) ==
    LET cols == a.columns
                \o Filter(b.columns,
                          Tuple([j \in 1..Len(b.columns) |->
                                   IndexOf(a.columns, b.columns[j]) = 0]))
        Widen(f, row) ==
            Tuple([j \in 1..Len(cols) |->
                    LET k == IndexOf(f.columns, cols[j])
                    IN  IF k = 0 THEN NaN ELSE row[k]])
    IN  [columns |-> cols,
         data |-> [i \in 1..Len(a.data) |-> Widen(a, a.data[i])]
                  \o [i \in 1..Len(b.data) |-> Widen(b, b.data[i])]]

\* ------------------------------------------- to_csv (app_v2.py:125, 132)
\* the text of a cell: na_rep is "", a float is written by repr
CellText(c) ==
    CASE c.t = "str" -> c.v
      [] c.t = "nan" -> <<>>
      [] c.t = "int" -> c.v
      [] c.t = "float" -> c.v \o <<".", "0">>

RECURSIVE DoubleQuotes(_)
DoubleQuotes(s) ==
    IF Len(s) = 0 THEN <<>>
    ELSE (IF Head(s) = "\"" THEN <<"\"", "\"">> ELSE <<Head(s)>>) \o DoubleQuotes(Tail(s))

NeedsQuote(s) == \E i \in 1..Len(s) : s[i] \in {",", "\"", "\n", "\r"}

\* csv.QUOTE_MINIMAL with doublequote
QuoteField(s) ==
    IF NeedsQuote(s) THEN <<"\"">> \o DoubleQuotes(s) \o <<"\"">> ELSE s

RECURSIVE QuoteAll(_)
QuoteAll(fields) ==
    IF Len(fields) = 0 THEN <<>>
    ELSE <<QuoteField(Head(fields))>> \o QuoteAll(Tail(fields))

\* csv.writer.writerow: a row of one empty field is written as "" (two quotes)
CsvLine(fields) ==
    (IF Len(fields) = 1 /\ Len(fields[1]) = 0 THEN <<"\"", "\"">>
     ELSE Join(QuoteAll(fields), <<",">>)) \o Newline

RECURSIVE CsvLines(_)
CsvLines(rows) ==
    IF Len(rows) = 0 THEN <<>>
    ELSE CsvLine(Tuple([j \in 1..Len(Head(rows)) |-> CellText(Head(rows)[j])]))
         \o CsvLines(Tail(rows))

\* df.to_csv(index=False): the header line, then one line per row
to_csv(df) == CsvLine(df.columns) \o CsvLines(df.data)

\* ------------------------------------------------ read_csv (app_v2.py:119)
\* The tokenizer of the C parser: one state per character, fields split at commas
\* and lines at newlines outside quotes, "" inside quotes is one quote, a line with
\* no character is skipped.
TokInit == [st |-> "start_record", field |-> <<>>, row |-> <<>>, rows |-> <<>>]

EndField(k) == [k EXCEPT !.row = Append(k.row, k.field), !.field = <<>>,
                         !.st = "start_field"]

EndLine(k) == [k EXCEPT !.rows = Append(k.rows, k.row), !.row = <<>>,
                        !.st = "start_record"]

Push(k, c, st) == [k EXCEPT !.field = Append(k.field, c), !.st = st]

TokStep(k, c) ==
    CASE k.st = "start_record" /\ c = "\n" -> k
      [] k.st \in {"start_record", "start_field"} /\ c # "\n" ->
            IF c = "\"" THEN [k EXCEPT !.st = "in_quoted"]
            ELSE IF c = "," THEN EndField(k)
            ELSE Push(k, c, "in_field")
      [] k.st = "start_field" /\ c = "\n" -> EndLine(EndField(k))
      [] k.st = "in_field" ->
            IF c = "\n" THEN EndLine(EndField(k))
            ELSE IF c = "," THEN EndField(k)
            ELSE Push(k, c, "in_field")
      [] k.st = "in_quoted" ->
            IF c = "\"" THEN [k EXCEPT !.st = "quote_in_quoted"]
            ELSE Push(k, c, "in_quoted")
      [] k.st = "quote_in_quoted" ->
            IF c = "\"" THEN Push(k, c, "in_quoted")
            ELSE IF c = "," THEN EndField(k)
            ELSE IF c = "\n" THEN EndLine(EndField(k))
            ELSE Push(k, c, "in_field")

\* the tokenizer run over s[i..j]
TokAt(k, s, i) == IF i > Len(s) THEN k ELSE TokStep(k, s[i])
Tok4(k, s, i) == TokAt(TokAt(TokAt(TokAt(k, s, i), s, i + 1), s, i + 2), s, i + 3)
Tok16(k, s, i) == Tok4(Tok4(Tok4(Tok4(k, s, i), s, i + 4), s, i + 8), s, i + 12)

RECURSIVE TokRun(_, _, _)
\* the tokenizer run over s from position i, sixteen characters at a time
TokRun(k, s, i) ==
    IF i > Len(s) THEN k
    ELSE LET k2 == Tok16(k, s, i)
         IN  IF k2.st = "" THEN k2 ELSE TokRun(k2, s, i + 16)

\* the lines of fields of a text; eof_in_string when the text ends inside quotes
Tokenize(s) ==
    LET k == TokRun(TokInit, s, 1)
    IN  [eof_in_string |-> k.st = "in_quoted",
         lines |-> IF k.st \in {"start_record", "in_quoted"} THEN k.rows
                   ELSE EndLine(EndField(k)).rows]

\* the default na_values of read_csv
na_values ==
    { <<>>,
      <<"#","N","/","A">>,
      <<"#","N","/","A"," ","N","/","A">>,
      <<"#","N","A">>,
      <<"-","1",".","#","I","N","D">>,
      <<"-","1",".","#","Q","N","A","N">>,
      <<"-","N","a","N">>,
      <<"-","n","a","n">>,
      <<"1",".","#","I","N","D">>,
      <<"1",".","#","Q","N","A","N">>,
      <<"<","N","A",">">>,
      <<"N","/","A">>,
      <<"N","A">>,
      <<"N","U","L","L">>,
      <<"N","a","N">>,
      <<"N","o","n","e">>,
      <<"n","/","a">>,
      <<"n","a","n">>,
      <<"n","u","l","l">> }

IsDigits(s) == Len(s) > 0 /\ \A i \in 1..Len(s) : s[i] \in Digit

\* a leading '+' is accepted by the integer and float parsers (no text of the
\* model carries a '-')
Unsigned(s) == IF Len(s) > 0 /\ s[1] = "+" THEN Tail(s) ELSE s

IsIntText(s) == IsDigits(Unsigned(s))

RECURSIVE Canon(_)
\* the decimal digits of the value of a digit string: leading zeros dropped
Canon(d) == IF Len(d) > 1 /\ d[1] = "0" THEN Canon(Tail(d)) ELSE d

\* position of the decimal point of "digits.000", 0 when s is not of that shape
\* (the floats this program writes are whole numbers)
PointOf(s) ==
    LET u == Unsigned(s)
        ok(p) == /\ u[p] = "."
                 /\ IsDigits(SubSeq(u, 1, p - 1))
                 /\ \A i \in (p + 1)..Len(u) : u[i] = "0"
    IN  IF \E p \in 2..Len(u) : ok(p) THEN CHOOSE p \in 2..Len(u) : ok(p) ELSE 0

IsFloatText(s) == IsIntText(s) \/ PointOf(s) > 0

FloatOf(s) ==
    IF IsIntText(s) THEN FloatCell(Canon(Unsigned(s)))
    ELSE FloatCell(Canon(SubSeq(Unsigned(s), 1, PointOf(s) - 1)))

\* the dtype inference of one column from the texts of its cells: int64 when every
\* cell is an integer, float64 when every cell is a number or missing, else object
InferColumn(texts) ==
    LET n == Len(texts)
        isna(i) == texts[i] \in na_values
    IN  IF n > 0 /\ \A i \in 1..n : ~isna(i) /\ IsIntText(texts[i])
        THEN Tuple([i \in 1..n |-> IntCell(Canon(Unsigned(texts[i])))])
        ELSE IF \A i \in 1..n : isna(i) \/ IsFloatText(texts[i])
        THEN Tuple([i \in 1..n |-> IF isna(i) THEN NaN ELSE FloatOf(texts[i])])
        ELSE Tuple([i \in 1..n |-> IF isna(i) THEN NaN ELSE StrCell(texts[i])])

DigitChars == <<"0", "1", "2", "3", "4", "5", "6", "7", "8", "9">>

RECURSIVE Decimal(_)
\* str(n)
Decimal(n) == IF n < 10 THEN <<DigitChars[n + 1]>>
              ELSE Decimal(n \div 10) \o <<DigitChars[(n % 10) + 1]>>

\* a header field that is empty is named "Unnamed: <position>"
HeaderName(h, j) ==
    IF Len(h[j]) = 0
    THEN <<"U","n","n","a","m","e","d",":"," ">> \o Decimal(j - 1)
    ELSE h[j]

ParseError == [err |-> TRUE, columns |-> <<>>, data |-> <<>>]

\* pd.read_csv(MASTER_CSV): err for an empty file (EmptyDataError), a file that ends
\* inside a quoted field or a line longer than the header (ParserError)
read_csv(text) ==
    LET tk    == Tokenize(text)
        lines == tk.lines
        ncols == Len(lines[1])
        nrows == Len(lines) - 1
        Pad(row, j) == IF j <= Len(row) THEN row[j] ELSE <<>>
        cols  == Tuple([j \in 1..ncols |->
                         InferColumn(Tuple([i \in 1..nrows |-> Pad(lines[i + 1], j)]))])
    IN  IF tk.eof_in_string \/ Len(lines) = 0 THEN ParseError
        ELSE IF \E i \in 2..Len(lines) : Len(lines[i]) > ncols THEN ParseError
        ELSE [err |-> FALSE,
              columns |-> Tuple([j \in 1..ncols |-> HeaderName(lines[1], j)]),
              data |-> Tuple([i \in 1..nrows |->
                                Tuple([j \in 1..ncols |-> cols[j][i]])])]

\* --------------------------------------------------- harness for phones
DigitCycle == <<"9", "8", "7", "6", "5", "4", "3", "2", "1", "0">>

RunOf(n) == Tuple([i \in 1..n |-> DigitCycle[((i - 1) % 10) + 1]])

Segment == [plus : BOOLEAN, n : {0} \cup (9..MaxRun), sep : {<<>>, <<" ">>, <<"x">>}]

SegText(g) == (IF g.plus THEN <<"+">> ELSE <<>>) \o RunOf(g.n) \o g.sep

RECURSIVE SegsText(_)
SegsText(gs) == IF Len(gs) = 0 THEN <<>> ELSE SegText(gs[1]) \o SegsText(Tail(gs))

\* "call 9876543210 or +919876543210 ext 12"
ExampleText ==
    <<"c","a","l","l"," ","9","8","7","6","5","4","3","2","1","0"," ","o","r"," ",
      "+","9","1","9","8","7","6","5","4","3","2","1","0"," ","e","x","t"," ","1","2">>

PhoneTexts ==
    {ExampleText} \cup
    UNION {{SegsText(gs) : gs \in [1..k -> Segment]} : k \in 0..MaxSegs}

NoOut == [list |-> <<>>, field |-> <<>>]

HarnessOff == h_text = <<>> /\ h_out = NoOut /\ h_pc = "off"

\* ------------------------------------------------------------ documents
Sessions == {1, 2}

PageA ==
    <<"A","l"," ","R","o","y"," ","a","@","b"," ","c","@","d"," ",
      "9","8","7","6","5","4","3","2","1","0","\n",
      "s","k","i","l","l","e","d"," ","i","n"," ","S","Q","L","\n",
      "+","2"," ","S","c","h","o","o","l","\n",
      "B","a","c","h","e","l","o","r","s","\n",
      "P","r","o","j","e","c","t"," ","X">>

PageB == <<"+","9","1","9","8","7","6","5","4","3","2","1","0">>

\* what page.extract_text() does: returns a text, returns None, or raises
TextPage(t) == [kind |-> "text", text |-> t]
NonePage == [kind |-> "none", text |-> <<>>]
RaisePage == [kind |-> "raise", text |-> <<>>]

Pdf(pages) == [present |-> TRUE, valid |-> TRUE, pages |-> pages]
NoFile == [present |-> FALSE, valid |-> FALSE, pages |-> <<>>]
BadBytes == [present |-> TRUE, valid |-> FALSE, pages |-> <<>>]

Files ==
    { NoFile, BadBytes,
      Pdf(<<>>),
      Pdf(<<NonePage, TextPage(<<>>)>>),
      Pdf(<<TextPage(PageA)>>),
      Pdf(<<TextPage(PageB)>>),
      Pdf(<<TextPage(PageB), RaisePage>>) }

\* nlp(all_text) (app_v2.py:11, 69): the PERSON entities and the sentences are the
\* NLP engine's choice. An entity is a non-empty piece of the text, the empty text
\* has neither entity nor sentence.
AlRoy == <<"A","l"," ","R","o","y">>
Roy == <<"R","o","y">>

NonBlankLines(text) ==
    LET lines == SplitLines(text)
    IN  Filter(lines, Tuple([i \in 1..Len(lines) |-> Len(Strip(lines[i])) > 0]))

\* two analyses: no person and the text as one sentence; the persons "Al Roy" and
\* "Roy" (when the text holds them) and one sentence per non-blank line
Nlp(text) ==
    IF Len(text) = 0 THEN {[persons |-> <<>>, sents |-> <<>>]}
    ELSE { [persons |-> <<>>, sents |-> <<text>>],
           [persons |-> IF Contains(AlRoy, text) THEN <<AlRoy, Roy>> ELSE <<>>,
            sents |-> NonBlankLines(text)] }

\* ------------------------------------------------------- the script run
NoTable == [columns |-> <<>>, data |-> <<>>]
Absent == [exists |-> FALSE, text |-> <<>>]

MainInit ==
    /\ pc = [p \in Sessions |-> "idle"]
    /\ uploaded = [p \in Sessions |-> NoFile]
    /\ all_text = [p \in Sessions |-> <<>>]
    /\ parsed = [p \in Sessions |-> <<>>]
    /\ shown = [p \in Sessions |-> <<>>]
    /\ df_combined = [p \in Sessions |-> NoTable]
    /\ ui = [p \in Sessions |-> <<>>]
    /\ err = [p \in Sessions |-> ""]
    /\ master_csv = Absent
    /\ start_csv = [p \in Sessions |-> Absent]
    /\ log = <<>>
    /\ n_uploads = 0
    /\ faulted = FALSE
    /\ overlap = FALSE

Init == MainInit /\ HarnessOff

hvars == <<h_text, h_out, h_pc>>
hist == <<log, faulted, overlap>>

Ended(p) == pc[p] \in {"idle", "done", "stopped", "crashed"}

\* A rerun of the script with file f in the uploader (app_v2.py:34-38): with no
\* file the page shows the hint and the run stops
Upload(p, f) ==
    /\ Ended(p)
    /\ n_uploads < MaxUploads
    /\ n_uploads' = n_uploads + 1
    /\ uploaded' = [uploaded EXCEPT ![p] = f]
    /\ all_text' = [all_text EXCEPT ![p] = <<>>]
    /\ parsed' = [parsed EXCEPT ![p] = <<>>]
    /\ shown' = [shown EXCEPT ![p] = <<>>]
    /\ df_combined' = [df_combined EXCEPT ![p] = NoTable]
    /\ err' = [err EXCEPT ![p] = ""]
    /\ start_csv' = [start_csv EXCEPT ![p] = master_csv]
    /\ IF f.present
       THEN pc' = [pc EXCEPT ![p] = "open"] /\ ui' = [ui EXCEPT ![p] = <<>>]
       ELSE pc' = [pc EXCEPT ![p] = "stopped"] /\ ui' = [ui EXCEPT ![p] = <<"info">>]
    /\ UNCHANGED <<master_csv, hist, hvars>>

\* mutant: the handler shows the error but lacks st.stop()
OpenPDF_NoStop(p) ==
    /\ pc[p] = "open"
    /\ pc' = [pc EXCEPT ![p] = "extract"]
    /\ IF uploaded[p].valid
       THEN UNCHANGED <<ui, err>>
       ELSE /\ ui' = [ui EXCEPT ![p] = Append(@, "error: failed to open PDF")]
            /\ err' = [err EXCEPT ![p] = "open"]
    /\ UNCHANGED <<uploaded, all_text, parsed, shown, df_combined, master_csv,
                   start_csv, n_uploads, log, faulted, overlap, h_text, h_out, h_pc>>

\* try: PdfReader(...) except: st.error; st.stop() (app_v2.py:41-46)
OpenPDF(p) ==
    /\ pc[p] = "open"
    /\ IF uploaded[p].valid
       THEN /\ pc' = [pc EXCEPT ![p] = "extract"]
            /\ UNCHANGED <<ui, err>>
       ELSE /\ pc' = [pc EXCEPT ![p] = "stopped"]
            /\ ui' = [ui EXCEPT ![p] = Append(@, "error: failed to open PDF")]
            /\ err' = [err EXCEPT ![p] = "open"]
    /\ UNCHANGED <<uploaded, all_text, parsed, shown, df_combined, master_csv,
                   start_csv, n_uploads, hist, hvars>>

\* t = p.extract_text() or ""
PageText(page) == IF page.kind = "text" THEN page.text ELSE <<>>

Raises(pages) == \E i \in 1..Len(pages) : pages[i].kind = "raise"

\* "\n\n".join(all_text_parts) (app_v2.py:64-68)
Assemble(pages) ==
    Join(Tuple([i \in 1..Len(pages) |-> PageText(pages[i])]), <<"\n", "\n">>)

\* The extraction loop (app_v2.py:64-68): no handler surrounds extract_text(), so a
\* page that raises ends the run with the exception on the page
ExtractAllText(p) ==
    /\ pc[p] = "extract"
    /\ IF Raises(uploaded[p].pages)
       THEN /\ pc' = [pc EXCEPT ![p] = "crashed"]
            /\ err' = [err EXCEPT ![p] = "extract"]
            /\ ui' = [ui EXCEPT ![p] = Append(@, "exception")]
            /\ UNCHANGED all_text
       ELSE /\ pc' = [pc EXCEPT ![p] = "parse"]
            /\ all_text' = [all_text EXCEPT ![p] = Assemble(uploaded[p].pages)]
            /\ UNCHANGED <<ui, err>>
    /\ UNCHANGED <<uploaded, parsed, shown, df_combined, master_csv, start_csv,
                   n_uploads, hist, hvars>>

\* nlp, the field extraction, its display and resume_dict (app_v2.py:69, 79-115)
ParseResume(p) ==
    /\ pc[p] = "parse"
    /\ \E doc \in Nlp(all_text[p]) :
          /\ parsed' = [parsed EXCEPT ![p] = resume_dict(all_text[p], doc)]
          /\ shown' = [shown EXCEPT ![p] = displayed(parsed'[p])]
    /\ ui' = [ui EXCEPT ![p] = Append(@, "fields")]
    /\ pc' = [pc EXCEPT ![p] = "merge"]
    /\ UNCHANGED <<uploaded, all_text, df_combined, err, master_csv, start_csv,
                   n_uploads, hist, hvars>>

\* mutant: the prior table is not loaded
Merged_NoPrior(file, row) == df_new(row)

\* the merged table (app_v2.py:118-122)
Merged(file, row) ==
    IF file.exists THEN concat(read_csv(file.text), df_new(row)) ELSE df_new(row)

\* os.path.exists, read_csv and concat (app_v2.py:118-122); read_csv raising ends
\* the run. The file cannot vanish between the test and the read: nothing deletes it.
MergeMaster(p) ==
    /\ pc[p] = "merge"
    /\ IF master_csv.exists /\ read_csv(master_csv.text).err
       THEN /\ pc' = [pc EXCEPT ![p] = "crashed"]
            /\ err' = [err EXCEPT ![p] = "read"]
            /\ ui' = [ui EXCEPT ![p] = Append(@, "exception")]
            /\ UNCHANGED <<df_combined, overlap>>
       ELSE /\ pc' = [pc EXCEPT ![p] = "save"]
            /\ df_combined' = [df_combined EXCEPT ![p] = Merged(master_csv, parsed[p])]
            /\ overlap' = (overlap \/ \E q \in Sessions \ {p} : pc[q] \in {"save", "writing"})
            /\ UNCHANGED <<ui, err>>
    /\ UNCHANGED <<uploaded, all_text, parsed, shown, master_csv, start_csv,
                   n_uploads, log, faulted, hvars>>

\* to_csv opens the file for writing (app_v2.py:125): the file is created or cut to
\* nothing; or the open fails (unwritable target) and the file is as it was
SaveOpen(p) ==
    /\ pc[p] = "save"
    /\ \/ /\ master_csv' = [exists |-> TRUE, text |-> <<>>]
          /\ pc' = [pc EXCEPT ![p] = "writing"]
          /\ UNCHANGED <<ui, err, faulted>>
       \/ /\ pc' = [pc EXCEPT ![p] = "crashed"]
          /\ err' = [err EXCEPT ![p] = "write"]
          /\ ui' = [ui EXCEPT ![p] = Append(@, "exception")]
          /\ faulted' = TRUE
          /\ UNCHANGED master_csv
    /\ UNCHANGED <<uploaded, all_text, parsed, shown, df_combined, start_csv,
                   n_uploads, log, overlap, hvars>>

\* to_csv writes the table and closes the file (app_v2.py:125)
SaveWrite(p) ==
    /\ pc[p] = "writing"
    /\ master_csv' = [exists |-> TRUE, text |-> to_csv(df_combined[p])]
    /\ log' = Append(log, parsed[p])
    /\ pc' = [pc EXCEPT ![p] = "show"]
    /\ UNCHANGED <<uploaded, all_text, parsed, shown, df_combined, ui, err, start_csv,
                   n_uploads, faulted, overlap, hvars>>

\* where a write that fails may stop: within the first MaxTear characters, after a
\* line break or after a quote
TearPoints(text) ==
    {m \in 0..(Len(text) - 1) : m <= MaxTear \/ (m > 0 /\ text[m] \in {"\n", "\""})}

\* the write fails part-way (disk exhaustion, a killed process): what was written
\* stays in the file, the exception ends the run
SaveFail(p) ==
    /\ pc[p] = "writing"
    /\ \E m \in TearPoints(to_csv(df_combined[p])) :
          master_csv' = [exists |-> TRUE, text |-> SubSeq(to_csv(df_combined[p]), 1, m)]
    /\ pc' = [pc EXCEPT ![p] = "crashed"]
    /\ err' = [err EXCEPT ![p] = "write"]
    /\ ui' = [ui EXCEPT ![p] = Append(@, "exception")]
    /\ faulted' = TRUE
    /\ UNCHANGED <<uploaded, all_text, parsed, shown, df_combined, start_csv,
                   n_uploads, log, overlap, hvars>>

\* st.dataframe(df_combined) and the download button (app_v2.py:128-138)
ShowTable(p) ==
    /\ pc[p] = "show"
    /\ ui' = [ui EXCEPT ![p] = @ \o <<"table", "download">>]
    /\ pc' = [pc EXCEPT ![p] = "done"]
    /\ UNCHANGED <<uploaded, all_text, parsed, shown, df_combined, err, master_csv,
                   start_csv, n_uploads, hist, hvars>>

Step(p) ==
    \/ OpenPDF(p)
    \/ ExtractAllText(p)
    \/ ParseResume(p)
    \/ MergeMaster(p)
    \/ SaveOpen(p)
    \/ SaveWrite(p)
    \/ SaveFail(p)
    \/ ShowTable(p)

mvars == <<pc, uploaded, all_text, parsed, shown, df_combined, ui, err, master_csv,
           start_csv, n_uploads, log, faulted, overlap>>

vars == <<mvars, hvars>>

\* Two sessions, one upload each. The server runs each session's script in a thread
\* of its own, so the steps of the two runs interleave freely.
Next ==
    \E p \in Sessions :
        \/ pc[p] = "idle" /\ \E f \in Files : Upload(p, f)
        \/ Step(p)

Spec == Init /\ [][Next]_vars

\* One upload at a time (spec section 5): a single session reruns the script, up to
\* MaxUploads times.
NextSeq == (\E f \in Files : Upload(1, f)) \/ Step(1)

SpecSeq == Init /\ [][NextSeq]_vars

\* ----------------------------------------------------- harness: phones
HInit == MainInit /\ h_text \in PhoneTexts /\ h_out = NoOut /\ h_pc = "in"

ApplyPhones ==
    /\ h_pc = "in"
    /\ h_out' = [list |-> phones(h_text), field |-> PhonesField(h_text)]
    /\ h_pc' = "out"
    /\ UNCHANGED <<h_text, mvars>>

SpecPhones == HInit /\ [][ApplyPhones]_vars
\* =============================================================== claims
\* the data lines of the master file, as the texts of their fields
FileRows == IF master_csv.exists THEN Tail(Tokenize(master_csv.text).lines) ELSE <<>>

Shows(p, what) == \E i \in 1..Len(ui[p]) : ui[p][i] = what

\* C1: after any number of uploads processed one after another from an absent master
\* file, with no write failing, the file holds exactly the rows appended, in upload
\* order, each as it was when appended.
CE_C1 == (~faulted /\ \A p \in Sessions : Ended(p)) => FileRows = log

\* C2: once the merged table is written, a fresh read_csv of the file gives the same
\* columns and the same value in every cell as the table that was written.
CE_C2 ==
    \A p \in Sessions :
        (pc[p] = "show" /\ ~faulted) =>
            LET r == read_csv(master_csv.text)
            IN  /\ ~r.err
                /\ r.columns = df_combined[p].columns
                /\ r.data = df_combined[p].data

\* C3: when opening the uploaded bytes fails, the run stops there: the error is
\* shown, no text is assembled, no record and no merged table are built, and the
\* master file is what it was when the run started.
T_C3 ==
    \A p \in Sessions :
        err[p] = "open" =>
            /\ pc[p] = "stopped"
            /\ ui[p] = <<"error: failed to open PDF">>
            /\ all_text[p] = <<>>
            /\ parsed[p] = <<>>
            /\ df_combined[p] = NoTable
            /\ master_csv = start_csv[p]

\* an open failure with a master file already written by an earlier upload
W_C3 == \E p \in Sessions : err[p] = "open" /\ master_csv.exists /\ Len(log) > 0

\* C4: a page whose text extraction raises does not abort the document: the run ends
\* having assembled the text with "" for that page, built the record and appended it.
CE_C4 ==
    \A p \in Sessions :
        (uploaded[p].valid /\ Raises(uploaded[p].pages) /\ Ended(p) /\ ~faulted) =>
            /\ pc[p] = "done"
            /\ all_text[p] = Assemble(uploaded[p].pages)
            /\ parsed[p] # <<>>

\* C5: at every point of an upload the master file is either what it was when the
\* upload started or the complete merged table.
CE_C5 ==
    \A p \in Sessions :
        \/ master_csv = start_csv[p]
        \/ /\ df_combined[p] # NoTable
           /\ master_csv = [exists |-> TRUE, text |-> to_csv(df_combined[p])]

\* C6: when writing the master file fails, the run does not report success, the
\* failure is shown, and the merged table is still shown and offered for download.
CE_C6 ==
    \A p \in Sessions :
        err[p] = "write" =>
            /\ pc[p] # "done"
            /\ Shows(p, "exception")
            /\ Shows(p, "table")
            /\ Shows(p, "download")

AllEmpty(f) == \A i \in 1..Len(f.pages) : PageText(f.pages[i]) = <<>>

\* C7: for a document with no page or with only empty page texts, every persisted
\* field is the empty string and every displayed field is "N/A".
CE_C7 ==
    \A p \in Sessions :
        (parsed[p] # <<>> /\ AllEmpty(uploaded[p])) =>
            /\ \A i \in 1..7 : parsed[p][i] = <<>>
            /\ \A i \in 1..7 : shown[p][i] = NA

\* C8: after any sequence of uploads the columns of the merged table, and of the file
\* written from it, are exactly Name, Emails, Phones, Skills, Education, Projects,
\* Profile, in that order.
CE_C8 ==
    \A p \in Sessions :
        pc[p] \in {"show", "done"} =>
            /\ df_combined[p].columns = Columns
            /\ read_csv(master_csv.text).columns = Columns

\* the maximal digit runs of a text, in order, each with whether a '+' precedes it
RECURSIVE DigitRuns(_, _)
DigitRuns(s, i) ==
    IF i > Len(s) THEN <<>>
    ELSE IF s[i] \notin Digit THEN DigitRuns(s, i + 1)
    ELSE LET n == DigitRun(s, i, Len(s))
         IN  <<[plus |-> i > 1 /\ s[i - 1] = "+", digits |-> SubSeq(s, i, i + n - 1)]>>
             \o DigitRuns(s, i + n)

RECURSIVE RunPhones(_, _)
\* the phones of one maximal run: none under 10 digits, the run itself (with its
\* '+') up to 12 digits, and for a longer run its first 12 digits and then the
\* phones of the rest
RunPhones(plus, d) ==
    IF Len(d) < 10 THEN <<>>
    ELSE IF Len(d) <= 12 THEN <<(IF plus THEN <<"+">> ELSE <<>>) \o d>>
    ELSE <<(IF plus THEN <<"+">> ELSE <<>>) \o SubSeq(d, 1, 12)>>
         \o RunPhones(FALSE, SubSeq(d, 13, Len(d)))

RECURSIVE AllRunPhones(_)
AllRunPhones(runs) ==
    IF Len(runs) = 0 THEN <<>>
    ELSE RunPhones(Head(runs).plus, Head(runs).digits) \o AllRunPhones(Tail(runs))

\* "9876543210, +919876543210"
ExamplePhones ==
    <<"9","8","7","6","5","4","3","2","1","0",",",
      " ","+","9","1","9","8","7","6","5","4","3","2","1","0">>

RECURSIVE Flatten(_)
Flatten(parts) == IF Len(parts) = 0 THEN <<>> ELSE Head(parts) \o Flatten(Tail(parts))

\* the characters of a joined field that are not separators: with one ", " between
\* two neighbours, the field is the phones in order with nothing else
SeparatedBy(field, parts) ==
    /\ Len(field) = Len(Flatten(parts)) + 2 * (IF Len(parts) = 0 THEN 0 ELSE Len(parts) - 1)
    /\ \A k \in 1..Len(parts) :
          LET at == Len(Flatten(SubSeq(parts, 1, k - 1))) + 2 * (k - 1)
          IN  /\ SubSeq(field, at + 1, at + Len(parts[k])) = parts[k]
              /\ k < Len(parts) =>
                    SubSeq(field, at + Len(parts[k]) + 1, at + Len(parts[k]) + 2)
                        = <<",", " ">>

\* C9: the phones are, in document order and with duplicates kept, the digit runs of
\* 10 to 12 digits with their leading '+'; a run of 9 or fewer digits gives none; the
\* Phones field is the phones joined with ", "; the example text gives the example
\* field.
T_C9 ==
    h_pc = "out" =>
        /\ h_out.list = AllRunPhones(DigitRuns(h_text, 1))
        /\ SeparatedBy(h_out.field, h_out.list)
        /\ h_text = ExampleText => h_out.field = ExamplePhones

\* a text with a run of 9 digits and a run of 10 to 12 digits after a '+': one phone
W_C9 ==
    /\ h_pc = "out"
    /\ Len(h_out.list) = 1
    /\ Head(h_out.list[1]) = "+"
    /\ \E r \in 1..Len(DigitRuns(h_text, 1)) : Len(DigitRuns(h_text, 1)[r].digits) = 9

\* C10: when no run merges while another is between its merge and the end of its
\* write, and no write fails, the file holds one row per completed upload.
T_C10 ==
    (~overlap /\ ~faulted /\ \A p \in Sessions : pc[p] # "writing") =>
        Len(FileRows) = Len(log)

\* both uploads completed, interleaved, and the file holds one row: an append is lost
W_C10 ==
    /\ overlap /\ ~faulted
    /\ \A p \in Sessions : pc[p] = "done"
    /\ Len(log) = 2
    /\ Len(FileRows) = 1
====
